---- MODULE Spec2Model ----
(***************************************************************************)
(* A model of drf_cache: SerializedModelCache and                          *)
(* SerializedModelCacheWithIndexes (caches.py), the signal handlers        *)
(* (signals.py) and the cached retrieve / list mixins (mixins.py).         *)
(*                                                                         *)
(* Python strings are sequences of one-character strings, so that the      *)
(* f-string concatenations of make_key / make_index_key and the prefix     *)
(* match of delete_pattern are computed, not assumed.  Python values are   *)
(* tagged tuples: <<"None">>, <<"int", n>>, <<"str", s>>, <<"list", xs>>,  *)
(* <<"tuple", xs>>, <<"dict", pairs>>.                                     *)
(***************************************************************************)
EXTENDS Integers, Sequences, FiniteSets, TLC

VARIABLES
  backend,        \* the Django cache backend: <<version, key>> -> [val, exp]
  now,            \* the backend's clock
  compress_data,  \* SerializedModelCache.compress_data of the deployed cache class
  timeout,        \* SerializedModelCache.timeout of the deployed cache class
  deployed,       \* the versions of the cache instances that run against the backend
  stored,         \* history: <<version, pk>> -> the instance last written by set
  produced,       \* history: the <<version, index value>> pairs an extractor has yielded on a write
  last,           \* the last cache operation: its arguments, result and the keys it addressed
  store,          \* the store of truth: pk -> the saved record, or NoRow
  req,            \* the list request in flight between pagination and the batch fetch
  pending,        \* the retrieve in flight between get_object and get_and_cache_data
  resp,           \* the last view response
  keyed,          \* the entries two key tuples and an index tuple address, once computed
  coded           \* a value on its way through compress_value and decompress_value

vars == <<backend, now, compress_data, timeout, deployed, pending, coded, stored, produced, last, store, req, resp, keyed>>

----------------------------------------------------------------------------
(* Bounds of the model *)

\* record revisions: body ranges over 0..MaxBody
MaxBody == 1
\* the longest page the paginator hands to list
MaxPage == 2
\* the last instant of the backend's clock
MaxNow == 4
\* the most items of a sequence, and the most keys of a mapping, handed to the codec
MaxItems == 2

(* Domains of the inputs *)

\* primary keys of the records; 1 and 12 share the decimal prefix "1"
LookupValues == {1, 12}
\* the primary keys of the rows the store of truth may hold
StorePks == LookupValues \cup {2}
\* the key suffixes get_cache_key_suffix may return
Suffixes == {<<>>, <<"2">>}
\* the values the slug index extractor yields
IndexValues == {<<"a">>, <<"b">>}
\* the cache generations deployed on the one backend
Versions == {1, 2}

----------------------------------------------------------------------------
(* Python values *)

None == <<"None">>

PyInt(n) == <<"int", n>>

PyStr(s) == <<"str", s>>

Raise(e) == <<"raise", e>>

DigitChars == <<"0", "1", "2", "3", "4", "5", "6", "7", "8", "9">>

\* str(n) of a non-negative int, as the f-strings format a lookup value
RECURSIVE Str(_)
Str(n) ==
  IF n < 10 THEN <<DigitChars[n + 1]>>
  ELSE Str(n \div 10) \o <<DigitChars[(n % 10) + 1]>>

IsPrefix(p, k) == Len(p) <= Len(k) /\ SubSeq(k, 1, Len(p)) = p

----------------------------------------------------------------------------
(* The cache class configuration *)

\* key_prefix = ''
key_prefix == <<>>

\* self.__class__.__name__ of the deployed cache class
class_name == <<"C">>

\* the backend's VERSION setting, used by every call that passes no version
BACKEND_VERSION == 1

\* the backend's TIMEOUT setting, used by every call that passes no timeout
BACKEND_TIMEOUT == 2

\* indexes = (('s', lambda instance: [instance.slug]),)
slug_getter(instance) == <<instance.slug>>

index_names == << <<"s">> >>

\* an index name no cache declares
UndeclaredIndexNames == { <<"t">> }

\* the cache instances that run: the class attributes version and timeout of each
Caches == { [version |-> v, timeout |-> timeout] : v \in deployed }

Instances == [pk : LookupValues, slug : IndexValues, body : 0..MaxBody]

NoInstance == [pk |-> 0, slug |-> <<>>, body |-> 0]

----------------------------------------------------------------------------
(* The backend: django.core.cache's get / set / delete and the            *)
(* delete_pattern the backend must add.  Every entry lives under           *)
(* <<version, key>>; a call that passes no version uses BACKEND_VERSION.   *)

Never == <<"never">>

\* timeout=None keeps the entry for ever; a number of seconds expires it
Expiry(ttl) == IF ttl = None THEN Never ELSE <<"at", now + ttl[2]>>

Live(e) == e.exp = Never \/ now < e.exp[2]

cache_get(b, key, version) ==
  IF <<version, key>> \in DOMAIN b /\ Live(b[<<version, key>>])
  THEN b[<<version, key>>].val
  ELSE None

cache_set(b, key, value, ttl, version) ==
  [k \in DOMAIN b \cup {<<version, key>>} |->
     IF k = <<version, key>> THEN [val |-> value, exp |-> Expiry(ttl)] ELSE b[k]]

cache_delete(b, key, version) ==
  [k \in DOMAIN b \ {<<version, key>>} |-> b[k]]

\* the keys of one version that the glob pattern  prefix + '*'  matches
Matching(b, prefix, version) ==
  {k \in DOMAIN b : k[1] = version /\ IsPrefix(prefix, k[2])}

cache_delete_pattern(b, prefix, version) ==
  [k \in DOMAIN b \ Matching(b, prefix, version) |-> b[k]]

----------------------------------------------------------------------------
(* The value codec *)

\* a dict key as json.dumps writes it: a str stays, an int becomes its decimal string
JsonKey(k) == IF k[1] = "str" THEN k[2] ELSE Str(k[2])

\* a json.dumps that writes every number as a string
RECURSIVE json_dumps_str(_)
json_dumps_str(v) ==
  CASE v[1] = "None" -> <<"null">>
    [] v[1] = "int"  -> <<"string", Str(v[2])>>
    [] v[1] = "str"  -> <<"string", v[2]>>
    [] v[1] \in {"list", "tuple"} ->
         <<"array", [i \in 1..Len(v[2]) |-> json_dumps_str(v[2][i])]>>
    [] v[1] = "dict" ->
         <<"object", [i \in 1..Len(v[2]) |->
                        <<JsonKey(v[2][i][1]), json_dumps_str(v[2][i][2])>>]>>

\* json.dumps(value, separators=(',', ':')): the JSON document of a Python value
RECURSIVE json_dumps(_)
json_dumps(v) ==
  CASE v[1] = "None" -> <<"null">>
    [] v[1] = "int"  -> <<"number", v[2]>>
    [] v[1] = "str"  -> <<"string", v[2]>>
    [] v[1] \in {"list", "tuple"} ->
         <<"array", [i \in 1..Len(v[2]) |-> json_dumps(v[2][i])]>>
    [] v[1] = "dict" ->
         <<"object", [i \in 1..Len(v[2]) |->
                        <<JsonKey(v[2][i][1]), json_dumps(v[2][i][2])>>]>>

\* json.loads: the Python value of a JSON document
RECURSIVE json_loads(_)
json_loads(j) ==
  CASE j[1] = "null"   -> None
    [] j[1] = "number" -> PyInt(j[2])
    [] j[1] = "string" -> PyStr(j[2])
    [] j[1] = "array"  ->
         <<"list", [i \in 1..Len(j[2]) |-> json_loads(j[2][i])]>>
    [] j[1] = "object" ->
         <<"dict", [i \in 1..Len(j[2]) |->
                      <<PyStr(j[2][i][1]), json_loads(j[2][i][2])>>]>>

\* codecs.encode(text.encode('utf-8'), encoding='zlib')
zlib_encode(j) == <<"zlib", j>>

compress_value(value) ==
  IF ~compress_data THEN value
  ELSE zlib_encode(json_dumps(value))

\* a decompress_value that leaves out json.loads
decompress_value_unparsed(value) ==
  IF ~compress_data THEN value
  ELSE IF value = None THEN None
  ELSE IF value[1] # "zlib" THEN Raise("zlib.error")
  ELSE value[2]

\* codecs.decode raises on anything that is not a zlib stream
decompress_value(value) ==
  IF ~compress_data THEN value
  ELSE IF value = None THEN None
  ELSE IF value[1] # "zlib" THEN Raise("zlib.error")
  ELSE json_loads(value[2])

\* serializer_class(instance=instance).data
Data(instance) ==
  <<"dict", << <<PyStr(<<"p", "k">>), PyInt(instance.pk)>>,
               <<PyStr(<<"s">>), PyStr(instance.slug)>>,
               <<PyStr(<<"b">>), PyInt(instance.body)>> >> >>

----------------------------------------------------------------------------
(* SerializedModelCache.  An operation takes the backend b and the cache  *)
(* instance c and yields [b: the backend after it, ret: what it returns,   *)
(* touched: the <<version, key>> places of the backend it addressed].      *)

get_lookup_value(instance) == instance.pk

\* f'{self.key_prefix}{self.__class__.__name__}:{lookup_value}{suffix}'
make_key(lookup_value, suffix) ==
  key_prefix \o class_name \o <<":">> \o Str(lookup_value) \o suffix

get(b, c, lookup_value, key_suffix) ==
  LET key  == make_key(lookup_value, key_suffix)
      data == cache_get(b, key, c.version)
  IN  [b |-> b, ret |-> decompress_value(data), touched |-> {<<c.version, key>>}]

\* a set_data that passes no timeout of the cache class: the entry is kept for ever
base_set_data_no_timeout(b, c, instance, data, key_suffix) ==
  LET lookup_value    == get_lookup_value(instance)
      compressed_data == compress_value(data)
      key             == make_key(lookup_value, key_suffix)
  IN  [b |-> cache_set(b, key, compressed_data, None, c.version),
       ret |-> None, touched |-> {<<c.version, key>>}]

\* SerializedModelCache.set_data
base_set_data(b, c, instance, data, key_suffix) ==
  LET lookup_value    == get_lookup_value(instance)
      compressed_data == compress_value(data)
      key             == make_key(lookup_value, key_suffix)
  IN  [b |-> cache_set(b, key, compressed_data, c.timeout, c.version),
       ret |-> None, touched |-> {<<c.version, key>>}]

\* a delete that removes the one key instead of the pattern
base_delete_one_key(b, c, instance, key_suffix) ==
  LET lookup_value == get_lookup_value(instance)
      key          == make_key(lookup_value, key_suffix)
  IN  [b |-> cache_delete(b, key, c.version),
       ret |-> PyInt(IF cache_get(b, key, c.version) = None THEN 0 ELSE 1),
       touched |-> {<<c.version, key>>}]

\* SerializedModelCache.delete
base_delete(b, c, instance, key_suffix) ==
  LET lookup_value == get_lookup_value(instance)
      key          == make_key(lookup_value, key_suffix)
      gone         == {k \in Matching(b, key, c.version) : Live(b[k])}
  IN  [b |-> cache_delete_pattern(b, key, c.version),
       ret |-> PyInt(Cardinality(gone)),
       touched |-> {<<c.version, key>>} \cup Matching(b, key, c.version)]

----------------------------------------------------------------------------
(* SerializedModelCacheWithIndexes *)

\* f'{self.key_prefix}{self.__class__.__name__}:i:{index_name}:{index_value}'
make_index_key(index_name, index_value) ==
  key_prefix \o class_name \o <<":", "i", ":">> \o index_name \o <<":">> \o index_value

\* the index keys of an instance, in the order the generator yields them
get_index_keys(instance) ==
  LET index_values == slug_getter(instance)
  IN  [i \in 1..Len(index_values) |-> make_index_key(index_names[1], index_values[i])]

Range(f) == {f[i] : i \in DOMAIN f}

\* for index_key in keys: self.cache.set(index_key, lookup_value, version=self.version)
RECURSIVE set_each(_, _, _, _)
set_each(b, keys, lookup_value, version) ==
  IF keys = <<>> THEN b
  ELSE set_each(cache_set(b, Head(keys), PyInt(lookup_value), PyInt(BACKEND_TIMEOUT), version),
                Tail(keys), lookup_value, version)

\* for index_key in keys: self.cache.delete(index_key)
RECURSIVE delete_each(_, _)
delete_each(b, keys) ==
  IF keys = <<>> THEN b
  ELSE delete_each(cache_delete(b, Head(keys), BACKEND_VERSION), Tail(keys))

set_indexes(b, c, instance) ==
  LET lookup_value == get_lookup_value(instance)
      keys         == get_index_keys(instance)
  IN  [b |-> set_each(b, keys, lookup_value, c.version),
       ret |-> None,
       touched |-> {<<c.version, k>> : k \in Range(keys)}]

\* a get_for_index without the assertion on the index name
get_for_index_unchecked(b, c, index_name, index_value, key_suffix) ==
  LET index_key    == make_index_key(index_name, index_value)
      lookup_value == cache_get(b, index_key, c.version)
  IN  IF lookup_value = None
      THEN [b |-> b, ret |-> None, touched |-> {<<c.version, index_key>>}]
      ELSE
        LET key  == make_key(lookup_value[2], key_suffix)
            data == cache_get(b, key, c.version)
        IN  [b |-> b, ret |-> decompress_value(data),
             touched |-> {<<c.version, index_key>>, <<c.version, key>>}]

get_for_index(b, c, index_name, index_value, key_suffix) ==
  IF index_name \notin Range(index_names)
  THEN [b |-> b, ret |-> Raise("AssertionError"), touched |-> {}]
  ELSE
    LET index_key    == make_index_key(index_name, index_value)
        lookup_value == cache_get(b, index_key, c.version)
    IN  IF lookup_value = None
        THEN [b |-> b, ret |-> None, touched |-> {<<c.version, index_key>>}]
        ELSE
          LET key  == make_key(lookup_value[2], key_suffix)
              data == cache_get(b, key, c.version)
          IN  [b |-> b, ret |-> decompress_value(data),
               touched |-> {<<c.version, index_key>>, <<c.version, key>>}]

\* a set_data that leaves out set_indexes
set_data_without_indexes(b, c, instance, data, key_suffix) ==
  base_set_data(b, c, instance, data, key_suffix)

\* SerializedModelCacheWithIndexes.set_data
set_data(b, c, instance, data, key_suffix) ==
  LET p == base_set_data(b, c, instance, data, key_suffix)
      i == set_indexes(p.b, c, instance)
  IN  [b |-> i.b, ret |-> None, touched |-> p.touched \cup i.touched]

\* SerializedModelCache.set, with the set_data of the indexed cache
set(b, c, instance, key_suffix) ==
  LET data == Data(instance)
      w    == set_data(b, c, instance, data, key_suffix)
  IN  [b |-> w.b, ret |-> data, touched |-> w.touched]

\* SerializedModelCacheWithIndexes.delete
delete(b, c, instance, key_suffix) ==
  LET keys == get_index_keys(instance)
      d    == base_delete(delete_each(b, keys), c, instance, key_suffix)
  IN  [b |-> d.b, ret |-> d.ret,
       touched |-> {<<BACKEND_VERSION, k>> : k \in Range(keys)} \cup d.touched]

delete_index(b, c, index_name, index_value) ==
  LET index_key == make_index_key(index_name, index_value)
  IN  [b |-> cache_delete(b, index_key, BACKEND_VERSION),
       ret |-> None, touched |-> {<<BACKEND_VERSION, index_key>>}]

----------------------------------------------------------------------------
(* The state after construction *)

NoRow == [pk |-> 0, slug |-> <<>>, body |-> 0]

NoReq == [page |-> <<>>, results |-> <<>>, cache_miss_indexes |-> <<>>,
          cache_misses |-> <<>>, key_suffix |-> <<>>, refresh_cache |-> FALSE,
          open |-> FALSE]

\* the record of one answered request: what was asked, what was returned (data of
\* retrieve, results of list), and what the view did to produce it
Resp(view, lookup_value, page, key_suffix, refresh_cache, data, results, before, loaded, cached, filled, misses, fetched) ==
  [view |-> view, lookup_value |-> lookup_value, page |-> page,
   key_suffix |-> key_suffix, refresh_cache |-> refresh_cache,
   data |-> data, results |-> results, before |-> before, loaded |-> loaded,
   cached |-> cached, filled |-> filled, misses |-> misses, fetched |-> fetched]

\* no retrieve is between its load and its write
NoPending == [open |-> FALSE, lookup_value |-> 0, key_suffix |-> <<>>, instance |-> NoRow]

NoResp == Resp("none", 0, <<>>, <<>>, FALSE, None, <<>>, None, NoRow, FALSE, {}, 0, 0)

\* the record of one cache operation, and the time of the backend's clock it ran at
Op(op, c, lookup_value, instance, key_suffix, index_name, index_value, r) ==
  [op |-> op, version |-> c.version, at |-> now, lookup_value |-> lookup_value,
   instance |-> instance, key_suffix |-> key_suffix,
   index_name |-> index_name, index_value |-> index_value,
   ret |-> r.ret, touched |-> r.touched]

NoOp ==
  [op |-> "none", version |-> 0, at |-> 0, lookup_value |-> 0, instance |-> NoInstance,
   key_suffix |-> <<>>, index_name |-> <<>>, index_value |-> <<>>,
   ret |-> None, touched |-> {}]

\* what a write adds to the two histories
Stored(c, instance) == [stored EXCEPT ![<<c.version, instance.pk>>] = instance]

Produced(c, instance) ==
  produced \cup {<<c.version, v>> : v \in Range(slug_getter(instance))}

\* a cold cache; the store is set by each specification
InitBase ==
  /\ backend = [k \in {} |-> None]
  /\ now = 0
  /\ stored = [k \in Versions \X StorePks |-> NoInstance]
  /\ produced = {}
  /\ last = NoOp
  /\ req = NoReq
  /\ pending = NoPending
  /\ resp = NoResp

\* no value is on its way through the codec
NoCoded == [value |-> None, encoded |-> None, decoded |-> None, step |-> "none"]

NoKeys == [a |-> [version |-> 0, lookup_value |-> 0, suffix |-> <<>>],
           b |-> [version |-> 0, lookup_value |-> 0, suffix |-> <<>>],
           x |-> [version |-> 0, index_name |-> <<>>, index_value |-> <<>>],
           ka |-> <<>>, kb |-> <<>>, kx |-> <<>>]

\* the stores whose rows are among the given instances
Stores(instances) ==
  {st \in [StorePks -> instances \cup {NoRow}] : \A pk \in StorePks : st[pk].pk \in {0, pk}}

----------------------------------------------------------------------------
(* The operations of the cache, called directly *)

Get(c, lookup_value, key_suffix) ==
  LET r == get(backend, c, lookup_value, key_suffix)
  IN  /\ last' = Op("get", c, lookup_value, NoInstance, key_suffix, <<>>, <<>>, r)
      /\ UNCHANGED <<keyed, backend, now, compress_data, timeout, deployed, pending, coded, stored, produced, store, req, resp>>

Set(c, instance, key_suffix) ==
  LET r == set(backend, c, instance, key_suffix)
  IN  /\ backend' = r.b
      /\ stored' = Stored(c, instance)
      /\ produced' = Produced(c, instance)
      /\ last' = Op("set", c, instance.pk, instance, key_suffix, <<>>, <<>>, r)
      /\ UNCHANGED <<keyed, now, compress_data, timeout, deployed, pending, coded, store, req, resp>>

SetIndexes(c, instance) ==
  LET r == set_indexes(backend, c, instance)
  IN  /\ backend' = r.b
      /\ produced' = Produced(c, instance)
      /\ last' = Op("set_indexes", c, instance.pk, instance, <<>>, <<>>, <<>>, r)
      /\ UNCHANGED <<keyed, now, compress_data, timeout, deployed, pending, coded, stored, store, req, resp>>

GetForIndex(c, index_name, index_value, key_suffix) ==
  LET r == get_for_index(backend, c, index_name, index_value, key_suffix)
  IN  /\ backend' = r.b
      /\ last' = Op("get_for_index", c, 0, NoInstance, key_suffix, index_name, index_value, r)
      /\ UNCHANGED <<keyed, now, compress_data, timeout, deployed, pending, coded, stored, produced, store, req, resp>>

Delete(c, instance, key_suffix) ==
  LET r == delete(backend, c, instance, key_suffix)
  IN  /\ backend' = r.b
      /\ last' = Op("delete", c, instance.pk, instance, key_suffix, <<>>, <<>>, r)
      /\ UNCHANGED <<keyed, now, compress_data, timeout, deployed, pending, coded, stored, produced, store, req, resp>>

DeleteIndex(c, index_name, index_value) ==
  LET r == delete_index(backend, c, index_name, index_value)
  IN  /\ backend' = r.b
      /\ last' = Op("delete_index", c, 0, NoInstance, <<>>, index_name, index_value, r)
      /\ UNCHANGED <<keyed, now, compress_data, timeout, deployed, pending, coded, stored, produced, store, req, resp>>

IndexNames == Range(index_names) \cup UndeclaredIndexNames

\* the instances handed to the cache directly: one revision of each record state
CacheInstances == {i \in Instances : i.body = 0}

(* One cache generation on the backend, of either version *)

InitCache ==
  /\ InitBase
  /\ keyed = NoKeys
  /\ coded = NoCoded
  /\ store = [pk \in StorePks |-> NoRow]
  /\ compress_data \in BOOLEAN
  /\ timeout = None
  /\ deployed \in {{v} : v \in Versions}

CacheGet == \E c \in Caches, l \in LookupValues, k \in Suffixes : Get(c, l, k)

CacheSet == \E c \in Caches, i \in CacheInstances, k \in Suffixes : Set(c, i, k)

CacheSetIndexes == \E c \in Caches, i \in CacheInstances : SetIndexes(c, i)

CacheGetForIndex ==
  \E c \in Caches, n \in IndexNames, v \in IndexValues, k \in Suffixes :
    GetForIndex(c, n, v, k)

CacheDelete == \E c \in Caches, i \in CacheInstances, k \in Suffixes : Delete(c, i, k)

CacheDeleteIndex ==
  \E c \in Caches, n \in Range(index_names), v \in IndexValues : DeleteIndex(c, n, v)

NextCache ==
  \/ CacheGet
  \/ CacheSet
  \/ CacheSetIndexes
  \/ CacheGetForIndex
  \/ CacheDelete
  \/ CacheDeleteIndex

SpecCache == InitCache /\ [][NextCache]_vars

(* Two cache generations on the one backend, default suffix only *)

InitVersions ==
  /\ InitBase
  /\ keyed = NoKeys
  /\ coded = NoCoded
  /\ store = [pk \in StorePks |-> NoRow]
  /\ compress_data = TRUE
  /\ timeout = None
  /\ deployed = Versions

VersionInstances == {i \in CacheInstances : i.pk = 1}

VersionsGet == \E c \in Caches : Get(c, 1, <<>>)

VersionsSet == \E c \in Caches, i \in VersionInstances : Set(c, i, <<>>)

VersionsSetIndexes == \E c \in Caches, i \in VersionInstances : SetIndexes(c, i)

VersionsGetForIndex ==
  \E c \in Caches, v \in IndexValues : GetForIndex(c, index_names[1], v, <<>>)

VersionsDelete == \E c \in Caches, i \in VersionInstances : Delete(c, i, <<>>)

VersionsDeleteIndex ==
  \E c \in Caches, v \in IndexValues : DeleteIndex(c, index_names[1], v)

NextVersions ==
  \/ VersionsGet
  \/ VersionsSet
  \/ VersionsSetIndexes
  \/ VersionsGetForIndex
  \/ VersionsDelete
  \/ VersionsDeleteIndex

SpecVersions == InitVersions /\ [][NextVersions]_vars

----------------------------------------------------------------------------
(* signals.py: the handlers register_signals connects to post_save and     *)
(* post_delete of the model                                                *)

handle_change(b, c, instance) == set(b, c, instance, <<>>)

handle_delete(b, c, instance) == delete(b, c, instance, <<>>)

----------------------------------------------------------------------------
(* mixins.py: CachedMixin, CachedRetrieveModelMixin, CachedListModelMixin  *)

\* the hook process_data returns the data as it is
process_data(data) == data

\* the hook cache_instance: policy is the set of lookup values the view caches
cache_instance(policy, instance) == instance.pk \in policy

\* a get_and_cache_data that never writes the cache
get_and_cache_data_never(b, c, policy, instance, key_suffix) ==
  [b |-> b, ret |-> Data(instance), touched |-> {}]

\* a get_and_cache_data that does not ask cache_instance
get_and_cache_data_always(b, c, policy, instance, key_suffix) ==
  set(b, c, instance, key_suffix)

get_and_cache_data(b, c, policy, instance, key_suffix) ==
  IF cache_instance(policy, instance)
  THEN set(b, c, instance, key_suffix)
  ELSE [b |-> b, ret |-> Data(instance), touched |-> {}]

\* a get_from_cache that does not look at refresh_cache
get_from_cache_always(b, c, refresh_cache, lookup_value, key_suffix) ==
  get(b, c, lookup_value, key_suffix).ret

\* refresh_cache is the query parameter of the request
get_from_cache(b, c, refresh_cache, lookup_value, key_suffix) ==
  IF refresh_cache THEN None
  ELSE get(b, c, lookup_value, key_suffix).ret

\* CachedRetrieveModelMixin.retrieve; get_object raises Http404 for a missing row.
\* [b, ret] and, for the histories, loaded: the row read from the store (or NoRow)
\* and cached: whether cache.set ran
retrieve(b, c, st, policy, refresh_cache, lookup_value, key_suffix) ==
  LET data == get_from_cache(b, c, refresh_cache, lookup_value, key_suffix)
  IN  IF data # None
      THEN [b |-> b, ret |-> process_data(data), loaded |-> NoRow, cached |-> FALSE]
      ELSE IF st[lookup_value] = NoRow
      THEN [b |-> b, ret |-> Raise("Http404"), loaded |-> NoRow, cached |-> FALSE]
      ELSE
        LET instance == st[lookup_value]
            r        == get_and_cache_data(b, c, policy, instance, key_suffix)
        IN  [b |-> r.b, ret |-> process_data(r.ret), loaded |-> instance,
             cached |-> cache_instance(policy, instance)]

\* the positions of a sequence that hold the miss marker, in order
RECURSIVE MissIndexes(_, _)
MissIndexes(results, i) ==
  IF i > Len(results) THEN <<>>
  ELSE (IF results[i] = None THEN <<i>> ELSE <<>>) \o MissIndexes(results, i + 1)

\* CachedListModelMixin.list, lines 110-120: the cache lookups of a page
list_lookup(b, c, page, key_suffix) ==
  LET results == [i \in 1..Len(page) |->
                    LET data == get(b, c, page[i], key_suffix).ret
                    IN  IF data = None THEN None ELSE process_data(data)]
      cache_miss_indexes == MissIndexes(results, 1)
  IN  [page |-> page, results |-> results,
       cache_miss_indexes |-> cache_miss_indexes,
       cache_misses |-> [j \in 1..Len(cache_miss_indexes) |-> page[cache_miss_indexes[j]]],
       key_suffix |-> key_suffix]

Min(a, b) == IF a <= b THEN a ELSE b

\* CachedListModelMixin.list, lines 123-125: zip pairs the j-th miss index with the
\* j-th fetched instance and stops at the shorter of the two
RECURSIVE list_fill(_, _, _, _, _, _, _)
list_fill(b, c, policy, results, cache_miss_indexes, fetched, key_suffix) ==
  IF cache_miss_indexes = <<>> \/ fetched = <<>>
  THEN [b |-> b, results |-> results]
  ELSE
    LET r == get_and_cache_data(b, c, policy, Head(fetched), key_suffix)
    IN  list_fill(r.b, c, policy,
                  [results EXCEPT ![Head(cache_miss_indexes)] = process_data(r.ret)],
                  Tail(cache_miss_indexes), Tail(fetched), key_suffix)

\* the sequences that list every element of a finite set once
Perms(S) ==
  {f \in [1..Cardinality(S) -> S] : \A i, j \in 1..Cardinality(S) : f[i] = f[j] => i = j}

\* the sequences of distinct elements of S of length n
Arrangements(S, n) ==
  {f \in [1..n -> S] : \A i, j \in 1..n : f[i] = f[j] => i = j}

\* queryset.filter(<lookup_field>__in=cache_misses): the rows of the store among the
\* misses; the store returns them in an order of its own
Fetched(st, cache_misses) ==
  Perms({st[pk] : pk \in {x \in Range(cache_misses) : st[x] # NoRow}})

----------------------------------------------------------------------------
(* The store of truth and the views.  A save or a delete of a row runs the  *)
(* signal handler of the cache before it returns.                          *)

\* Model.save(): the row is written, post_save runs handle_change
Save(c, instance) ==
  LET r == handle_change(backend, c, instance)
  IN  /\ store' = [store EXCEPT ![instance.pk] = instance]
      /\ backend' = r.b
      /\ stored' = Stored(c, instance)
      /\ produced' = Produced(c, instance)
      /\ last' = NoOp
      /\ resp' = NoResp
      /\ UNCHANGED <<keyed, now, compress_data, timeout, deployed, pending, coded, req>>

\* Model.delete(): the row is removed, post_delete runs handle_delete
Destroy(c, pk) ==
  /\ store[pk] # NoRow
  /\ LET r == handle_delete(backend, c, store[pk])
     IN  /\ store' = [store EXCEPT ![pk] = NoRow]
         /\ backend' = r.b
         /\ last' = NoOp
         /\ resp' = NoResp
         /\ UNCHANGED <<keyed, now, compress_data, timeout, deployed, pending, coded, stored, produced, req>>

Retrieve(c, policy, refresh_cache, lookup_value, key_suffix) ==
  LET r == retrieve(backend, c, store, policy, refresh_cache, lookup_value, key_suffix)
  IN  /\ backend' = r.b
      /\ stored' = IF r.cached THEN Stored(c, r.loaded) ELSE stored
      /\ produced' = IF r.cached THEN Produced(c, r.loaded) ELSE produced
      /\ last' = NoOp
      /\ resp' = Resp("retrieve", lookup_value, <<>>, key_suffix, refresh_cache,
                      r.ret, <<>>, get(backend, c, lookup_value, key_suffix).ret,
                      r.loaded, r.cached, {}, 0, 0)
      /\ UNCHANGED <<keyed, now, compress_data, timeout, deployed, pending, coded, store, req>>

\* list up to the cache lookups: the page was read from the store, the batch query
\* is still to run
ListBegin(c, page, refresh_cache, key_suffix) ==
  /\ ~req.open
  /\ \A i \in 1..Len(page) : store[page[i]] # NoRow
  /\ LET q == list_lookup(backend, c, page, key_suffix)
     IN  req' = [page |-> q.page, results |-> q.results,
                 cache_miss_indexes |-> q.cache_miss_indexes,
                 cache_misses |-> q.cache_misses, key_suffix |-> key_suffix,
                 refresh_cache |-> refresh_cache, open |-> TRUE]
  /\ last' = NoOp
  /\ resp' = NoResp
  /\ UNCHANGED <<keyed, backend, now, compress_data, timeout, deployed, pending, coded, stored, produced, store>>

RECURSIVE StoredEach(_, _, _)
StoredEach(h, c, instances) ==
  IF instances = <<>> THEN h
  ELSE StoredEach([h EXCEPT ![<<c.version, Head(instances).pk>>] = Head(instances)],
                  c, Tail(instances))

\* list from the batch query to the response
ListFinish(c, policy, fetched) ==
  /\ req.open
  /\ LET r      == list_fill(backend, c, policy, req.results, req.cache_miss_indexes,
                             fetched, req.key_suffix)
         n      == Min(Len(req.cache_miss_indexes), Len(fetched))
         paired == SubSeq(fetched, 1, n)
         set_   == SelectSeq(paired, LAMBDA i : cache_instance(policy, i))
     IN  /\ backend' = r.b
         /\ stored' = StoredEach(stored, c, set_)
         /\ produced' = produced \cup
                          {<<c.version, v>> : v \in UNION {Range(slug_getter(i)) : i \in Range(set_)}}
         /\ resp' = Resp("list", 0, req.page, req.key_suffix, req.refresh_cache,
                         None, r.results, None, NoRow, FALSE,
                         {req.cache_miss_indexes[j] : j \in 1..n},
                         Len(req.cache_misses), Len(fetched))
  /\ req' = NoReq
  /\ last' = NoOp
  /\ UNCHANGED <<keyed, now, compress_data, timeout, deployed, pending, coded, store>>

\* the class defaults compress_data = True and version = 1; the cache is cold and
\* the store holds the rows saved before the cache was registered
InitView(instances) ==
  /\ InitBase
  /\ keyed = NoKeys
  /\ coded = NoCoded
  /\ compress_data = TRUE
  /\ timeout = None
  /\ deployed = {1}
  /\ store \in Stores(instances)

\* what cache_instance may decide: cache every record (the default), or none
Policies == {StorePks, {}}

(* Single retrieval against a changing store *)

RetrieveInstances == {i \in Instances : i.slug = <<"a">>}

RetrieveSave == \E c \in Caches, i \in RetrieveInstances : Save(c, i)

RetrieveDestroy == \E c \in Caches, pk \in LookupValues : Destroy(c, pk)

RetrieveRetrieve ==
  \E c \in Caches, policy \in Policies, refresh_cache \in BOOLEAN,
     l \in LookupValues, k \in Suffixes :
    Retrieve(c, policy, refresh_cache, l, k)

NextRetrieve ==
  \/ RetrieveSave
  \/ RetrieveDestroy
  \/ RetrieveRetrieve

InitRetrieve == InitView(RetrieveInstances)

SpecRetrieve == InitRetrieve /\ [][NextRetrieve]_vars

(* Batch retrieval against a changing store, default suffix *)

ListInstances == [pk : StorePks, slug : {<<"a">>}, body : 0..MaxBody]

Pages == UNION {Arrangements(StorePks, n) : n \in 0..MaxPage}

ListSave == \E c \in Caches, i \in ListInstances : Save(c, i)

ListDestroy == \E c \in Caches, pk \in StorePks : Destroy(c, pk)

ListListBegin ==
  \E c \in Caches, page \in Pages, refresh_cache \in BOOLEAN :
    ListBegin(c, page, refresh_cache, <<>>)

ListListFinish ==
  \E c \in Caches, policy \in Policies, fetched \in Fetched(store, req.cache_misses) :
    ListFinish(c, policy, fetched)

NextList ==
  \/ ListSave
  \/ ListDestroy
  \/ ListListBegin
  \/ ListListFinish

InitList == InitView(ListInstances)

SpecList == InitList /\ [][NextList]_vars

(* Single retrieval running beside the saves and deletes of other requests: *)
(* a miss is two steps, the load of the row and the write of the cache, and *)
(* a save or a delete may come between them.  Default suffix.              *)

\* retrieve up to get_object: the cache had no entry (or the refresh flag was set)
\* and the row was read
RetrieveLoad(c, refresh_cache, lookup_value, key_suffix) ==
  /\ ~pending.open
  /\ get_from_cache(backend, c, refresh_cache, lookup_value, key_suffix) = None
  /\ store[lookup_value] # NoRow
  /\ pending' = [open |-> TRUE, lookup_value |-> lookup_value, key_suffix |-> key_suffix,
                 instance |-> store[lookup_value]]
  /\ last' = NoOp
  /\ resp' = NoResp
  /\ UNCHANGED <<keyed, coded, backend, now, compress_data, timeout, deployed, stored, produced, store, req>>

\* retrieve from get_and_cache_data to the response
RetrieveStore(c, policy) ==
  /\ pending.open
  /\ LET r == get_and_cache_data(backend, c, policy, pending.instance, pending.key_suffix)
         cached == cache_instance(policy, pending.instance)
     IN  /\ backend' = r.b
         /\ stored' = IF cached THEN Stored(c, pending.instance) ELSE stored
         /\ produced' = IF cached THEN Produced(c, pending.instance) ELSE produced
         /\ resp' = Resp("retrieve", pending.lookup_value, <<>>, pending.key_suffix, FALSE,
                         process_data(r.ret), <<>>,
                         get(backend, c, pending.lookup_value, pending.key_suffix).ret,
                         pending.instance, cached, {}, 0, 0)
  /\ pending' = NoPending
  /\ last' = NoOp
  /\ UNCHANGED <<keyed, coded, now, compress_data, timeout, deployed, store, req>>

RaceSave == \E c \in Caches, i \in RetrieveInstances : Save(c, i)

RaceDestroy == \E c \in Caches, pk \in LookupValues : Destroy(c, pk)

RaceRetrieve ==
  \E c \in Caches, policy \in Policies, refresh_cache \in BOOLEAN, l \in LookupValues :
    Retrieve(c, policy, refresh_cache, l, <<>>)

RaceRetrieveLoad ==
  \E c \in Caches, refresh_cache \in BOOLEAN, l \in LookupValues :
    RetrieveLoad(c, refresh_cache, l, <<>>)

RaceRetrieveStore == \E c \in Caches, policy \in Policies : RetrieveStore(c, policy)

NextRace ==
  \/ RaceSave
  \/ RaceDestroy
  \/ RaceRetrieve
  \/ RaceRetrieveLoad
  \/ RaceRetrieveStore

InitRace == InitView(RetrieveInstances)

SpecRace == InitRace /\ [][NextRace]_vars

----------------------------------------------------------------------------
(* The keys alone: make_key and make_index_key applied to drawn tuples.  A  *)
(* cache addresses the backend entry <<version, key>>.                     *)

KeyTuples == [version : Versions, lookup_value : StorePks, suffix : Suffixes]

IndexTuples == [version : Versions, index_name : Range(index_names), index_value : IndexValues]

InitKeys ==
  /\ InitBase
  /\ store = [pk \in StorePks |-> NoRow]
  /\ compress_data = TRUE
  /\ timeout = None
  /\ deployed = Versions
  /\ coded = NoCoded
  /\ keyed \in {[NoKeys EXCEPT !.a = a, !.b = b, !.x = x] :
                  a \in KeyTuples, b \in KeyTuples, x \in IndexTuples}

\* the entries the two key tuples address
MakeKey ==
  /\ keyed.ka = <<>>
  /\ keyed' = [keyed EXCEPT
                 !.ka = <<keyed.a.version, make_key(keyed.a.lookup_value, keyed.a.suffix)>>,
                 !.kb = <<keyed.b.version, make_key(keyed.b.lookup_value, keyed.b.suffix)>>]
  /\ UNCHANGED <<backend, now, compress_data, timeout, deployed, pending, coded, stored, produced, last, store, req, resp>>

\* the entry the index tuple addresses
MakeIndexKey ==
  /\ keyed.kx = <<>>
  /\ keyed' = [keyed EXCEPT
                 !.kx = <<keyed.x.version, make_index_key(keyed.x.index_name, keyed.x.index_value)>>]
  /\ UNCHANGED <<backend, now, compress_data, timeout, deployed, pending, coded, stored, produced, last, store, req, resp>>

NextKeys ==
  \/ MakeKey
  \/ MakeIndexKey

SpecKeys == InitKeys /\ [][NextKeys]_vars

----------------------------------------------------------------------------
(* The codec alone: compress_value and decompress_value applied to drawn    *)
(* decoded values, the values json.loads can return.                       *)

Atoms == {None, PyInt(0), PyInt(12), PyStr(<<>>), PyStr(<<"a">>)}

\* the sequences over S of at most n items
Seqs(S, n) == UNION {[1..m -> S] : m \in 0..n}

ListsOf(S) == {<<"list", q>> : q \in Seqs(S, MaxItems)}

\* the mappings with the first keys of "a", "b", "c", ... and values in S
DictKeys == <<PyStr(<<"a">>), PyStr(<<"b">>), PyStr(<<"c">>)>>

DictsOf(S) ==
  {<<"dict", [i \in 1..Len(q) |-> <<DictKeys[i], q[i]>>]>> : q \in Seqs(S, MaxItems)}

Flat == Atoms \cup ListsOf(Atoms) \cup DictsOf(Atoms)

DecodedValues ==
  Flat \cup {<<"list", <<x>>>> : x \in Flat} \cup {<<"dict", << <<DictKeys[1], x>> >> >> : x \in Flat}

InitCodec ==
  /\ InitBase
  /\ keyed = NoKeys
  /\ store = [pk \in StorePks |-> NoRow]
  /\ compress_data \in BOOLEAN
  /\ timeout = None
  /\ deployed = {1}
  /\ coded \in {[NoCoded EXCEPT !.value = v, !.step = "value"] : v \in DecodedValues}

\* set_data: the value is encoded for the backend
CompressValue ==
  /\ coded.step = "value"
  /\ coded' = [coded EXCEPT !.encoded = compress_value(coded.value), !.step = "encoded"]
  /\ UNCHANGED <<keyed, backend, now, compress_data, timeout, deployed, pending, stored, produced, last, store, req, resp>>

\* get on a hit: what the backend holds is decoded
DecompressValue ==
  /\ coded.step = "encoded"
  /\ coded' = [coded EXCEPT !.decoded = decompress_value(coded.encoded), !.step = "decoded"]
  /\ UNCHANGED <<keyed, backend, now, compress_data, timeout, deployed, pending, stored, produced, last, store, req, resp>>

\* get on a miss: the backend returned None
DecompressMiss ==
  /\ coded.step = "value"
  /\ coded' = [coded EXCEPT !.decoded = decompress_value(None), !.step = "missed"]
  /\ UNCHANGED <<keyed, backend, now, compress_data, timeout, deployed, pending, stored, produced, last, store, req, resp>>

NextCodec ==
  \/ CompressValue
  \/ DecompressValue
  \/ DecompressMiss

SpecCodec == InitCodec /\ [][NextCodec]_vars

----------------------------------------------------------------------------
(* The backend's clock.  An entry written with a timeout is gone once the   *)
(* timeout has elapsed; a cache class declares timeout = None (the default) *)
(* or a number of seconds.                                                 *)

Timeouts == {None, PyInt(1), PyInt(3)}

\* one second passes on the backend
Tick ==
  /\ now < MaxNow
  /\ now' = now + 1
  /\ UNCHANGED <<keyed, backend, compress_data, timeout, deployed, pending, coded, stored, produced, last, store, req, resp>>

TtlInstances == {i \in CacheInstances : i.pk = 1}

InitTtl ==
  /\ InitBase
  /\ keyed = NoKeys
  /\ coded = NoCoded
  /\ store = [pk \in StorePks |-> NoRow]
  /\ compress_data = TRUE
  /\ timeout \in Timeouts
  /\ deployed = {1}

TtlTick == Tick

TtlGet == \E c \in Caches : Get(c, 1, <<>>)

TtlSet == \E c \in Caches, i \in TtlInstances : Set(c, i, <<>>)

TtlGetForIndex == \E c \in Caches, v \in IndexValues : GetForIndex(c, index_names[1], v, <<>>)

TtlDelete == \E c \in Caches, i \in TtlInstances : Delete(c, i, <<>>)

NextTtl ==
  \/ TtlTick
  \/ TtlGet
  \/ TtlSet
  \/ TtlGetForIndex
  \/ TtlDelete

SpecTtl == InitTtl /\ [][NextTtl]_vars

----------------------------------------------------------------------------
(* Properties of the cache operations *)

\* the cache instance that ran the last operation
LastCache == [version |-> last.version, timeout |-> timeout]

\* the representations of the records whose lookup value is not pk
OtherData(pk) == {Data(i) : i \in {x \in Instances : x.pk # pk}}

C3_IndexConsistency ==
  /\ last.op = "set" =>
       \A v \in Range(slug_getter(last.instance)) :
         get_for_index(backend, LastCache, index_names[1], v, last.key_suffix).ret
           = Data(last.instance)
  /\ \A c \in Caches, v \in IndexValues, k \in Suffixes :
       <<c.version, v>> \notin produced =>
         get_for_index(backend, c, index_names[1], v, k).ret = None

\* a set under a suffix, with another index value never produced
C3_Witness ==
  /\ last.op = "set" /\ last.key_suffix # <<>>
  /\ \E v \in IndexValues : <<last.version, v>> \notin produced

\* C4: after set(record, suffix), get(lookupValue(record), suffix) is exactly the
\* representation set returned, with compression on and off.
C4_SetThenGet ==
  last.op = "set" =>
    get(backend, LastCache, last.lookup_value, last.key_suffix).ret = last.ret

\* a set under a suffix with compression on, whose instance is the one last stored
C4_Witness ==
  /\ last.op = "set" /\ compress_data /\ last.key_suffix # <<>>
  /\ last.ret = Data(last.instance)
  /\ stored[<<last.version, last.lookup_value>>] = last.instance

\* C5: two distinct tuples (version, lookupValue, suffix) of one cache class never
\* address the same backend entry, and no primary key is an index key of the cache.
C5_KeysCollisionFree ==
  /\ (keyed.ka # <<>> /\ keyed.a # keyed.b) => keyed.ka # keyed.kb
  /\ (keyed.ka # <<>> /\ keyed.kx # <<>>) => (keyed.ka # keyed.kx /\ keyed.kb # keyed.kx)

\* C9: an operation of the cache of version v addresses entries of version v only
\* and leaves every backend entry of another version as it was.
C9_VersionIsolation ==
  [][/\ \A k \in last'.touched : k[1] = last'.version
     /\ \A k \in DOMAIN backend \cup DOMAIN backend' :
          k[1] # last'.version =>
            /\ k \in DOMAIN backend /\ k \in DOMAIN backend'
            /\ backend'[k] = backend[k]]_vars

\* C10: getForIndex with an undeclared index name raises the assertion error, for
\* every index value and suffix, and leaves the backend unchanged.
C10_UndeclaredIndex ==
  [][(last'.op = "get_for_index" /\ last'.index_name \notin Range(index_names)) =>
       /\ last'.ret = Raise("AssertionError")
       /\ backend' = backend]_vars

\* getForIndex was called with an undeclared name while the index value had an entry
C10_Witness ==
  /\ last.op = "get_for_index"
  /\ last.index_name \in UndeclaredIndexNames
  /\ <<last.version, make_index_key(index_names[1], last.index_value)>> \in DOMAIN backend

\* C18: delete(r1, suffix) leaves every primary entry of a record with another
\* lookup value as it was: get(lookupValue(r2), s) is the same before and after,
\* for every suffix s.
C18_DeleteFrame ==
  [][last'.op = "delete" =>
       \A l \in LookupValues \ {last'.lookup_value}, k \in Suffixes :
         get(backend', [version |-> last'.version, timeout |-> timeout], l, k).ret
           = get(backend, [version |-> last'.version, timeout |-> timeout], l, k).ret]_vars

\* C19: delete(record) leaves in place an index entry that maps to the lookup value
\* of another record which is still cached afterwards: getForIndex of that value
\* returns the same as before.
C19_DeleteIndexOwner ==
  [][last'.op = "delete" =>
       \A v \in IndexValues :
         LET c     == [version |-> last'.version, timeout |-> timeout]
             owner == cache_get(backend, make_index_key(index_names[1], v), c.version)
         IN  (/\ owner # None
              /\ owner[2] # last'.lookup_value
              /\ get(backend', c, owner[2], <<>>).ret # None) =>
               get_for_index(backend', c, index_names[1], v, <<>>).ret
                 = get_for_index(backend, c, index_names[1], v, <<>>).ret]_vars

----------------------------------------------------------------------------
(* Properties of the views *)

\* the cache instance of the views
ViewCache == CHOOSE c \in Caches : TRUE

\* the representations of the record whose lookup value is pk, in any of its states
DataOf(pk) == {Data(i) : i \in {x \in Instances \cup ListInstances : x.pk = pk}}

\* C1: list returns a sequence as long as the page whose element i is the
\* representation of the record whose lookup value is page[i], whatever the split
\* into hits and misses and the order of the batch query's rows (every missed row
\* being returned).
C1_ListOrder ==
  (resp.view = "list" /\ resp.fetched = resp.misses) =>
    /\ Len(resp.results) = Len(resp.page)
    /\ \A i \in 1..Len(resp.page) : resp.results[i] \in DataOf(resp.page[i])

\* C6 as stated: retrieve with the refresh flag loads the record from the store,
\* returns the loaded representation, and leaves it in the cache under the
\* request's suffix.
C6_ForceRefresh ==
  (resp.view = "retrieve" /\ resp.refresh_cache /\ store[resp.lookup_value] # NoRow) =>
    /\ resp.loaded = store[resp.lookup_value]
    /\ resp.data = Data(store[resp.lookup_value])
    /\ get(backend, ViewCache, resp.lookup_value, resp.key_suffix).ret
         = Data(store[resp.lookup_value])

\* C6 amended: retrieve with the refresh flag loads the record from the store and
\* returns the loaded representation; when cache_instance holds for the record, the
\* cache entry under the request's suffix is that representation afterwards.
C6_ForceRefreshAmended ==
  (resp.view = "retrieve" /\ resp.refresh_cache /\ store[resp.lookup_value] # NoRow) =>
    /\ resp.loaded = store[resp.lookup_value]
    /\ resp.data = Data(store[resp.lookup_value])
    /\ resp.cached =>
         get(backend, ViewCache, resp.lookup_value, resp.key_suffix).ret
           = Data(store[resp.lookup_value])

\* a refreshing retrieve that found another representation cached and replaced it
C6_Witness ==
  /\ resp.view = "retrieve" /\ resp.refresh_cache /\ resp.cached
  /\ resp.before # None
  /\ resp.before # resp.data
  /\ get(backend, ViewCache, resp.lookup_value, resp.key_suffix).ret = resp.data

\* C7: with the refresh flag on the request, list loads every element of the page
\* from the store.
C7_ListForceRefresh ==
  (resp.view = "list" /\ resp.refresh_cache /\ resp.fetched = resp.misses) =>
    resp.filled = 1..Len(resp.page)

\* C8: when the batch query returns fewer rows than there were misses, list returns
\* a sequence without the miss marker.
C8_ListShortBatch ==
  (resp.view = "list" /\ resp.fetched < resp.misses) =>
    \A i \in 1..Len(resp.results) : resp.results[i] # None

----------------------------------------------------------------------------
(* Properties of the cache against the store *)

\* C13: when every save and delete of a row runs its notification before anything
\* else happens, with retrievals in between, get(id) under the default suffix is
\* nil or the representation of the row's current state, and nil while the row is
\* deleted.
C13_SequentialConsistency ==
  \A pk \in StorePks :
    LET r == get(backend, ViewCache, pk, <<>>).ret
    IN  IF store[pk] = NoRow THEN r = None ELSE r \in {None, Data(store[pk])}

\* C14: once the change notification of a record has been handled, every cached
\* entry of that record, under every key suffix, is absent or the representation
\* of the record's current state.
C14_ChangeRefreshesSuffixes ==
  [][\A pk \in LookupValues :
       (store'[pk] # NoRow /\ store'[pk] # store[pk]) =>
         \A k \in Suffixes :
           LET r == get(backend', ViewCache, pk, k).ret
           IN  r \in DataOf(pk) => r = Data(store'[pk])]_vars

\* C15: a retrieve that loads the record while cache_instance is false for it
\* returns the representation of the loaded record and leaves the backend, primary
\* and index entries alike, as it was.
C15_StoreDecisionFalse ==
  [][(resp'.view = "retrieve" /\ resp'.loaded # NoRow /\ ~resp'.cached) =>
       /\ resp'.loaded = store[resp'.lookup_value]
       /\ resp'.data = Data(resp'.loaded)
       /\ backend' = backend]_vars

\* a miss of a record that was not stored, while the cache held other entries
C15_Witness ==
  /\ resp.view = "retrieve" /\ ~resp.refresh_cache
  /\ resp.before = None
  /\ resp.loaded # NoRow /\ ~resp.cached
  /\ resp.data = Data(resp.loaded)
  /\ get(backend, ViewCache, resp.lookup_value, resp.key_suffix).ret = None
  /\ DOMAIN backend # {}

\* C16: nothing orders the write of a read-through against the saves of other
\* requests: the write stores the representation of the row as it was loaded,
\* whatever the store holds by then, so that the cache can be left with the state
\* before a change whose notification has already been handled.
C16_StaleOverwrite ==
  [][(pending.open /\ ~pending'.open /\ resp'.cached) =>
       get(backend', ViewCache, pending.lookup_value, pending.key_suffix).ret
         = Data(pending.instance)]_vars

\* the read-through and the change have both completed, in the order load, save
\* with its notification, write: the cache holds the loaded state, the store another
C16_Witness ==
  /\ ~pending.open
  /\ resp.view = "retrieve" /\ resp.cached
  /\ store[resp.lookup_value] # NoRow
  /\ store[resp.lookup_value] # resp.loaded
  /\ resp.before = Data(store[resp.lookup_value])
  /\ get(backend, ViewCache, resp.lookup_value, resp.key_suffix).ret = Data(resp.loaded)

\* C17: once a row is deleted, its delete notification handled and no retrieve is
\* in flight any more, the cache holds no primary entry for its lookup value.
C17_DeleteRace ==
  \A pk \in LookupValues :
    (store[pk] = NoRow /\ ~pending.open) => get(backend, ViewCache, pk, <<>>).ret = None

----------------------------------------------------------------------------
(* Properties of the codec *)

\* C12: for every decoded value v (numbers, strings, null, nested mappings and
\* sequences), decompress_value(compress_value(v)) = v with compression on and
\* off, and decompress_value(None) = None.
C12_CodecRoundTrip ==
  /\ coded.step = "decoded" => coded.decoded = coded.value
  /\ coded.step = "missed" => coded.decoded = None

\* a mapping that holds a sequence with a number went through zlib and JSON and back
C12_Witness ==
  /\ coded.step = "decoded" /\ compress_data
  /\ coded.value = <<"dict", << <<DictKeys[1], <<"list", <<PyInt(12), None>>>> >> >> >>
  /\ coded.encoded[1] = "zlib"
  /\ coded.decoded = coded.value

----------------------------------------------------------------------------
(* Properties over time *)

\* C11: with a finite timeout, and while no other operation has followed the set,
\* get(id) is the value set returned at every instant before the timeout has
\* elapsed since the set, and nil at every instant after it has elapsed.
C11_TtlExpiry ==
  (last.op = "set" /\ timeout # None) =>
    LET r == get(backend, LastCache, last.lookup_value, last.key_suffix).ret
    IN  /\ now < last.at + timeout[2] => r = last.ret
        /\ now > last.at + timeout[2] => r = None

\* a set made after the clock had started, whose timeout has elapsed since
C11_Witness ==
  /\ last.op = "set" /\ timeout # None
  /\ last.at > 0
  /\ now > last.at + timeout[2]
  /\ <<last.version, make_key(last.lookup_value, last.key_suffix)>> \in DOMAIN backend
  /\ get(backend, LastCache, last.lookup_value, last.key_suffix).ret = None

\* C20: while no other operation has followed set(record), at every instant at
\* which get(lookupValue(record)) still returns the stored representation,
\* getForIndex returns it too for every value the extractor yielded, whatever the
\* timeout of the cache.
C20_IndexOutlivesPrimary ==
  (last.op = "set" /\ get(backend, LastCache, last.lookup_value, last.key_suffix).ret = last.ret) =>
    \A v \in Range(slug_getter(last.instance)) :
      get_for_index(backend, LastCache, index_names[1], v, last.key_suffix).ret = last.ret

====
